---- MODULE Spec2Model ----
(***************************************************************************)
(* Round engine of the crash game (useGameEngine), with the modules it     *)
(* reads: the fair RNG (randomGenerator.js), the crash formula             *)
(* (crashFormula.js), the debug override (useDebugMode), the RTP           *)
(* configuration (useRTPConfig) and the simulation-mode clock              *)
(* (useSimulationMode).                                                    *)
(*                                                                         *)
(* Numbers are fixed point: multipliers and crash points in thousandths    *)
(* (MScale), random values in 1/10000 (RScale), the RTP factor in          *)
(* hundredths (percent), growth rates in 1e-7 per millisecond, exponents   *)
(* in thousandths.  Times are milliseconds.                                *)
(***************************************************************************)
EXTENDS Integers, Sequences, FiniteSets, TLC

(***************************************************************************)
(* Bounds of the model                                                     *)
(***************************************************************************)
\* the wall clock advances at most this many steps of StepMs
MaxNow == 2
\* timer / promise handles are drawn from 1..MaxIds
MaxIds == 4
\* largest roundId a round initialisation may install
MaxRoundId == 3
\* number of calls of the exported operations and of the settings panels
MaxCalls == 1
\* number of bet requests (place, cash out, cancel)
MaxBetCalls == 3
\* number of phase mutations after the initial appends
MaxPhaseCalls == 3
\* number of leading hex characters of the seed that seedToRandom reads
\* (13 in the source; scaled so that 16^n stays a machine integer)
HexCharsUsed == 2
\* length of a generated seed in hex characters (32 in the source)
SeedLen == 3
\* wall-clock reading (ms) at page load; Date.now() is about 1.7e12
Epoch == 1000000000

(***************************************************************************)
(* Scales of the fixed-point representation and program constants          *)
(***************************************************************************)
MScale == 1000
RScale == 10000
StepMs == 20000
Null == 0
Infinity == 2000000000
NaN == -1
Err == -2
MinCrashPoint == 1 * MScale
MaxCrashPoint == 10000 * MScale
DefaultCountdown == 5
ForceCountdown == 1
DefaultRtp == 97
DefaultDebugOverride == 100 * MScale
\* Math.pow(Math.E, x) is Infinity for x > 709.78 (exponent in thousandths)
ExpOverflow == 709782
DefaultBalance == 100000
MAX_PHASES == 10
\* addPhase's default rate 0.0001, in 1e-7 per ms
DefaultNewRate == 1000
MinBetCents == 100
MaxBetCents == 100000

Min(a, b) == IF a < b THEN a ELSE b
Max(a, b) == IF a > b THEN a ELSE b

(***************************************************************************)
(* randomGenerator.js                                                      *)
(***************************************************************************)
HexDigits == 0..15

\* seeds the CSPRNG may return: a leading digit followed by zeros
SeedSample == {0, 8, 15}
Seeds == { [i \in 1..SeedLen |-> IF i = 1 THEN d ELSE 0] : d \in SeedSample }

\* seed.slice(0, n)
Slice(seed, n) == SubSeq(seed, 1, Min(n, Len(seed)))

RECURSIVE ParseHex(_)
\* parseInt(hex, 16); NaN for the empty string
ParseHex(hex) ==
  IF Len(hex) = 0 THEN NaN
  ELSE IF Len(hex) = 1 THEN hex[1]
  ELSE LET init == ParseHex(SubSeq(hex, 1, Len(hex) - 1))
       IN  init * 16 + hex[Len(hex)]

RECURSIVE Pow16(_)
Pow16(n) == IF n = 0 THEN 1 ELSE 16 * Pow16(n - 1)

\* number of seedToRandom calls made so far
VARIABLE evaluations

\* variant: the value also depends on how many calls were made before
seedToRandom_Stateful(seed) ==
  LET hexValue == Slice(seed, HexCharsUsed)
      numValue == ParseHex(hexValue) + evaluations
      maxValue == Pow16(HexCharsUsed)
  IN  IF numValue = NaN THEN NaN
      ELSE LET random == (numValue * RScale) \div maxValue
           IN  Max(1, Min(RScale - 1, random))

\* variant: the value is not clamped
seedToRandom_NoClamp(seed) ==
  LET hexValue == Slice(seed, HexCharsUsed)
      numValue == ParseHex(hexValue)
      maxValue == Pow16(HexCharsUsed)
  IN  IF numValue = NaN THEN NaN
      ELSE (numValue * RScale) \div maxValue

\* random value in 1/RScale, clamped into [0.0001, 0.9999]
seedToRandom(seed) ==
  LET hexValue == Slice(seed, HexCharsUsed)
      numValue == ParseHex(hexValue)
      maxValue == Pow16(HexCharsUsed)
  IN  IF numValue = NaN THEN NaN
      ELSE LET random == (numValue * RScale) \div maxValue
           IN  Max(1, Min(RScale - 1, random))

\* character code of a hex digit: '0'..'9' = 48..57, 'a'..'f' = 97..102
CharCode(d) == IF d < 10 THEN 48 + d ELSE 87 + d

RECURSIVE simpleHashAcc(_, _)
\* hash = ((hash << 5) - hash) + char, over the characters left to right
simpleHashAcc(str, hash) ==
  IF Len(str) = 0 THEN hash
  ELSE simpleHashAcc(Tail(str), (hash * 32 - hash) + CharCode(Head(str)))

simpleHash(str) == simpleHashAcc(str, 0)

\* the commitment published for a seed: a deterministic digest of the seed
\* alone (SHA-256, or simpleHash where crypto.subtle is missing); the model
\* computes the digest with simpleHash on both paths
hashSeed(seed) == simpleHash(seed)

(***************************************************************************)
(* crashFormula.js                                                         *)
(***************************************************************************)
\* variant: the bounds of the random value are accepted
calculateCrashPoint_Closed(randomValue, rtpFactor) ==
  IF randomValue < 0 \/ randomValue > RScale THEN Err
  ELSE IF rtpFactor <= 0 \/ rtpFactor > 100 THEN Err
  ELSE IF randomValue = RScale THEN MaxCrashPoint
  ELSE LET crashPoint == (rtpFactor * 10 * RScale) \div (RScale - randomValue)
       IN  Min(Max(crashPoint, MinCrashPoint), MaxCrashPoint)

\* crashPoint in thousandths, Err where the code throws; a NaN argument fails
\* no comparison and yields NaN
calculateCrashPoint(randomValue, rtpFactor) ==
  IF randomValue # NaN /\ (randomValue <= 0 \/ randomValue >= RScale) THEN Err
  ELSE IF rtpFactor <= 0 \/ rtpFactor > 100 THEN Err
  ELSE IF randomValue = NaN THEN NaN
  ELSE LET crashPoint == (rtpFactor * 10 * RScale) \div (RScale - randomValue)
       IN  Min(Max(crashPoint, MinCrashPoint), MaxCrashPoint)

\* DEFAULT_CONFIG.phases: rate in 1e-7 per ms, endTime in ms (Null = open)
DefaultPhases ==
  << [id |-> 1, rate |-> 693,  endTime |-> 10000],
     [id |-> 2, rate |-> 921,  endTime |-> 25000],
     [id |-> 3, rate |-> 1842, endTime |-> Null] >>

\* F(x), with x evaluated once
Once(x, F(_)) == CHOOSE r \in { F(v) : v \in {x} } : TRUE

\* (a * b) / MScale, without leaving the machine integers
MulScaled(a, b) == (a \div MScale) * b + ((a % MScale) * b) \div MScale

\* (a * b) / 10^6 for a, b up to 2 * 10^6, without leaving the machine integers
MulMicro(a, b) ==
  ((a \div 1000) * b) \div 1000 + ((a % 1000) * b) \div 1000000

\* ln 2 in millionths
Ln2Micro == 693147

RECURSIVE ExpSeries(_, _, _, _)
\* sum of x^k / k! from term k on, x, term and the result in millionths
ExpSeries(x, k, term, acc) ==
  IF term = 0 \/ k > 12 THEN acc
  ELSE Once(MulMicro(term, x) \div k,
            LAMBDA next : ExpSeries(x, k + 1, next, acc + next))

RECURSIVE Pow2(_)
Pow2(k) == IF k = 0 THEN 1 ELSE 2 * Pow2(k - 1)

\* e^(x / 10^6) in thousandths: 2^k * e^r with r = x - k ln 2 in [0, ln 2)
ExpMicro(x) ==
  IF x <= 0 THEN MScale
  ELSE LET k == x \div Ln2Micro
           r == x - k * Ln2Micro
           er == ExpSeries(r, 1, 1000000, 1000000)
       IN  IF k <= 9 THEN (Pow2(k) * er) \div 1000
           ELSE Pow2(k - 9) * ((512 * er) \div 1000)

\* Math.pow(Math.E, rate * duration), Infinity on floating-point overflow
PowE(rate, duration) ==
  IF (duration \div 10000) * rate > ExpOverflow THEN Infinity
  ELSE ExpMicro((rate * duration) \div 10)

\* a * b on multipliers in thousandths
Times(a, b) == IF a = Infinity \/ b = Infinity THEN Infinity ELSE MulScaled(a, b)

RECURSIVE FindPhase(_, _, _)
\* first i with phases[i].endTime === null || elapsedMs < phases[i].endTime;
\* currentPhaseIndex keeps its initial value (the first phase) if none matches
FindPhase(phases, elapsedMs, i) ==
  IF i > Len(phases) THEN 1
  ELSE IF phases[i].endTime = Null \/ elapsedMs < phases[i].endTime THEN i
  ELSE FindPhase(phases, elapsedMs, i + 1)

RECURSIVE Cumulative(_, _)
\* growth accumulated over the completed phases 1..n
Cumulative(phases, n) ==
  IF n = 0 THEN MScale
  ELSE LET previousEndTime == IF n = 1 THEN 0 ELSE phases[n - 1].endTime
           phaseDuration == phases[n].endTime - previousEndTime
       IN  Times(Cumulative(phases, n - 1), PowE(phases[n].rate, phaseDuration))

\* variant: the time in the current phase is not counted from its start
MultiplierAt_NoPreviousEnd(phases, elapsedMs) ==
  IF elapsedMs < 0 THEN MScale
  ELSE IF Len(phases) = 0 THEN MScale
  ELSE LET currentPhaseIndex == FindPhase(phases, elapsedMs, 1)
           timeInCurrentPhase == elapsedMs
       IN  Times(Cumulative(phases, currentPhaseIndex - 1),
                 PowE(phases[currentPhaseIndex].rate, timeInCurrentPhase))

\* variant: the growth of the completed phases is dropped
MultiplierAt_CurrentPhaseOnly(phases, elapsedMs) ==
  IF elapsedMs < 0 THEN MScale
  ELSE IF Len(phases) = 0 THEN MScale
  ELSE LET currentPhaseIndex == FindPhase(phases, elapsedMs, 1)
           previousEndTime == IF currentPhaseIndex = 1 THEN 0
                              ELSE phases[currentPhaseIndex - 1].endTime
           timeInCurrentPhase == elapsedMs - previousEndTime
       IN  PowE(phases[currentPhaseIndex].rate, timeInCurrentPhase)

\* calculateCurrentMultiplier(elapsedMs) on the configured phases
MultiplierAt(phases, elapsedMs) ==
  IF elapsedMs < 0 THEN MScale
  ELSE IF Len(phases) = 0 THEN MScale
  ELSE LET currentPhaseIndex == FindPhase(phases, elapsedMs, 1)
           previousEndTime == IF currentPhaseIndex = 1 THEN 0
                              ELSE phases[currentPhaseIndex - 1].endTime
           timeInCurrentPhase == elapsedMs - previousEndTime
       IN  Times(Cumulative(phases, currentPhaseIndex - 1),
                 PowE(phases[currentPhaseIndex].rate, timeInCurrentPhase))

\* Math.log on [1, 2): 2 atanh((x - 1) / (x + 1)), x in thousandths, the
\* result in millionths
LnSeries(x) ==
  LET z  == ((x - MScale) * 1000000) \div (x + MScale)
      z2 == MulMicro(z, z)
      z3 == MulMicro(z2, z)
      z5 == MulMicro(z3, z2)
      z7 == MulMicro(z5, z2)
      z9 == MulMicro(z7, z2)
  IN  2 * (z + z3 \div 3 + z5 \div 5 + z7 \div 7 + z9 \div 9)

RECURSIVE LnMicro(_)
\* Math.log(x / 1000) in millionths, for x >= 1000
LnMicro(x) ==
  IF x >= 2 * MScale THEN Ln2Micro + LnMicro(x \div 2) ELSE LnSeries(x)

\* Math.log(targetMultiplier / cumulativeMultiplier) / phase.rate, in ms
TimeInPhase(targetMultiplier, cumulativeMultiplier, rate) ==
  (LnMicro((targetMultiplier * MScale) \div cumulativeMultiplier) * 10)
    \div rate

RECURSIVE TimeToReachFrom_NoOffset(_, _, _, _, _)
\* variant: the time spent in the earlier phases is not added
TimeToReachFrom_NoOffset(targetMultiplier, phases, i, cumulativeMultiplier, previousEndTime) ==
  IF i > Len(phases) THEN previousEndTime
  ELSE
    LET phase == phases[i]
        phaseEndMultiplier ==
          IF phase.endTime # Null
          THEN Times(cumulativeMultiplier,
                     PowE(phase.rate, phase.endTime - previousEndTime))
          ELSE Infinity
    IN  IF targetMultiplier <= phaseEndMultiplier
        THEN TimeInPhase(targetMultiplier, cumulativeMultiplier, phase.rate)
        ELSE TimeToReachFrom_NoOffset(targetMultiplier, phases, i + 1,
                                      phaseEndMultiplier, phase.endTime)

RECURSIVE TimeToReachFrom(_, _, _, _, _)
\* the loop of timeToReachMultiplier from phase i on
TimeToReachFrom(targetMultiplier, phases, i, cumulativeMultiplier, previousEndTime) ==
  IF i > Len(phases) THEN previousEndTime
  ELSE
    LET phase == phases[i]
        phaseEndMultiplier ==
          IF phase.endTime # Null
          THEN Times(cumulativeMultiplier,
                     PowE(phase.rate, phase.endTime - previousEndTime))
          ELSE Infinity
    IN  IF targetMultiplier <= phaseEndMultiplier
        THEN previousEndTime
               + TimeInPhase(targetMultiplier, cumulativeMultiplier, phase.rate)
        ELSE TimeToReachFrom(targetMultiplier, phases, i + 1,
                             phaseEndMultiplier, phase.endTime)

\* timeToReachMultiplier(targetMultiplier, phases), in whole ms
timeToReachMultiplier(targetMultiplier, phases) ==
  IF targetMultiplier <= MScale THEN 0
  ELSE TimeToReachFrom(targetMultiplier, phases, 1, MScale, 0)



(***************************************************************************)
(* useDebugMode, useRTPConfig                                              *)
(***************************************************************************)
getDebugCrashPoint(dbg) == dbg.crashPointOverride

isDebugActive(dbg) == dbg.isActive /\ dbg.crashPointOverride # Null

\* a localStorage entry: << >> when the key is absent, << value >> otherwise
Absent == << >>

\* variant: the persisted entry is not read
LoadDebugState_Defaults(stored) ==
  [crashPointOverride |-> DefaultDebugOverride, isActive |-> TRUE]

\* module initialisation of useDebugMode from the persisted entry
\* (crashPointOverride = Null in the entry is JSON null)
LoadDebugState(stored) ==
  IF stored # Absent /\ stored[1].crashPointOverride # Null
  THEN [crashPointOverride |-> stored[1].crashPointOverride, isActive |-> TRUE]
  ELSE [crashPointOverride |-> DefaultDebugOverride, isActive |-> TRUE]

\* saveToStorage()
saveToStorage(dbg) == << [crashPointOverride |-> dbg.crashPointOverride] >>

\* what module initialisation leaves in storage
LoadDebugStore(stored) ==
  IF stored # Absent THEN stored
  ELSE saveToStorage(LoadDebugState(stored))

(***************************************************************************)
(* useGrowthRateConfig: the phase store (indices are 0-based as in the     *)
(* source; phases[index + 1] is the source's state.phases[index])          *)
(***************************************************************************)
\* what a mutation leaves: the phases and the returned value
Outcome(ps, result) == [phases |-> ps, result |-> result]

\* setGrowthRate(index, value): value in 1e-7 per ms, allowed 0.000001 to
\* 0.001
setGrowthRate(ps, index, value) ==
  IF value <= 0 THEN Outcome(ps, FALSE)
  ELSE IF value < 10 \/ value > 10000 THEN Outcome(ps, FALSE)
  ELSE IF index < 0 \/ index >= Len(ps) THEN Outcome(ps, FALSE)
  ELSE Outcome([ps EXCEPT ![index + 1].rate = value], TRUE)

\* variant: the end time is not compared with the next phase's
setPhaseEndTime_NoUpper(ps, index, timeMs) ==
  IF index < 0 \/ index >= Len(ps) THEN Outcome(ps, FALSE)
  ELSE IF index = Len(ps) - 1 THEN Outcome(ps, FALSE)
  ELSE IF timeMs <= 0 THEN Outcome(ps, FALSE)
  ELSE IF index > 0 /\ ps[index].endTime # Null
            /\ timeMs <= ps[index].endTime THEN Outcome(ps, FALSE)
  ELSE Outcome([ps EXCEPT ![index + 1].endTime = timeMs], TRUE)

\* setPhaseEndTime(index, timeMs)
setPhaseEndTime(ps, index, timeMs) ==
  IF index < 0 \/ index >= Len(ps) THEN Outcome(ps, FALSE)
  ELSE IF index = Len(ps) - 1 THEN Outcome(ps, FALSE)
  ELSE IF timeMs <= 0 THEN Outcome(ps, FALSE)
  ELSE IF index > 0 /\ ps[index].endTime # Null
            /\ timeMs <= ps[index].endTime THEN Outcome(ps, FALSE)
  ELSE IF index < Len(ps) - 2 /\ ps[index + 2].endTime # Null
            /\ timeMs >= ps[index + 2].endTime THEN Outcome(ps, FALSE)
  ELSE Outcome([ps EXCEPT ![index + 1].endTime = timeMs], TRUE)

RECURSIVE MaxPhaseIdOf(_)
\* Math.max(...state.phases.map(p => p.id), 0)
MaxPhaseIdOf(ps) ==
  IF ps = << >> THEN 0 ELSE Max(Head(ps).id, MaxPhaseIdOf(Tail(ps)))

\* state.phases.splice(at, 0, newPhase), at 0-based
InsertAt(ps, at, newPhase) ==
  SubSeq(ps, 1, at) \o << newPhase >> \o SubSeq(ps, at + 1, Len(ps))

\* variant: at the end the new phase is pushed after the last phase
addPhase_Insert_Push(ps, afterIndex) ==
    LET id == MaxPhaseIdOf(ps) + 1
        n == Len(ps)
    IN  IF afterIndex = -1 \/ afterIndex >= n - 1
        THEN Outcome(Append(ps, [id |-> id, rate |-> DefaultNewRate,
                                 endTime |-> Null]), TRUE)
        ELSE LET insertIndex == afterIndex + 1
                 prevEndTime == ps[afterIndex + 1].endTime
                 nextEndTime == ps[insertIndex + 1].endTime
                 endTime == IF nextEndTime # Null
                            THEN (prevEndTime + nextEndTime) \div 2
                            ELSE prevEndTime + 10000
             IN  Outcome(InsertAt(ps, insertIndex,
                           [id |-> id, rate |-> DefaultNewRate,
                            endTime |-> endTime]), TRUE)

\* addPhase(afterIndex) past the MAX_PHASES test
addPhase_Insert(ps, afterIndex) ==
    LET id == MaxPhaseIdOf(ps) + 1
        n == Len(ps)
    IN  IF afterIndex = -1 \/ afterIndex >= n - 1
        THEN LET endTime ==
                   IF n > 1 /\ ps[n - 1].endTime # Null
                   THEN ps[n - 1].endTime + 10000
                   ELSE 10000
             IN  Outcome(InsertAt(ps, n - 1,
                           [id |-> id, rate |-> DefaultNewRate,
                            endTime |-> endTime]), TRUE)
        ELSE LET insertIndex == afterIndex + 1
                 prevEndTime == ps[afterIndex + 1].endTime
                 nextEndTime == ps[insertIndex + 1].endTime
                 endTime == IF nextEndTime # Null
                            THEN (prevEndTime + nextEndTime) \div 2
                            ELSE prevEndTime + 10000
             IN  Outcome(InsertAt(ps, insertIndex,
                           [id |-> id, rate |-> DefaultNewRate,
                            endTime |-> endTime]), TRUE)

\* variant: the number of phases is not limited
addPhase_NoLimit(ps, afterIndex) == addPhase_Insert(ps, afterIndex)

\* addPhase(afterIndex), afterIndex >= -1, with the default rate 0.0001; the
\* endTime argument is overwritten on both paths
addPhase(ps, afterIndex) ==
  IF Len(ps) >= MAX_PHASES THEN Outcome(ps, FALSE)
  ELSE addPhase_Insert(ps, afterIndex)

\* canRemovePhase(index)
canRemovePhase(ps, index) ==
  IF index < 0 \/ index >= Len(ps) THEN FALSE
  ELSE IF Len(ps) <= 2 THEN FALSE
  ELSE IF index = Len(ps) - 1 THEN FALSE
  ELSE TRUE

\* removePhase(index)
removePhase(ps, index) ==
  IF ~canRemovePhase(ps, index) THEN Outcome(ps, FALSE)
  ELSE Outcome(SubSeq(ps, 1, index) \o SubSeq(ps, index + 2, Len(ps)), TRUE)

\* resetToDefaults(): returns nothing
resetToDefaults(ps) == Outcome(DefaultPhases, TRUE)

(***************************************************************************)
(* useBalance, utils/currency.js                                           *)
(***************************************************************************)
\* currentBet = null
NoBet == [status |-> "NONE"]

\* validateBetAmount(amountCents).valid: 100 <= amountCents <= 100000
validateBetAmount(amountCents) ==
  amountCents >= MinBetCents /\ amountCents <= MaxBetCents

\* calculateWinnings: Math.floor(amountCents * multiplier), the multiplier
\* in thousandths
calculateWinnings(amountCents, multiplier) ==
  IF multiplier = Infinity THEN Infinity ELSE MulScaled(multiplier, amountCents)

\* a + b on cents, Infinity absorbing
Plus(a, b) == IF a = Infinity \/ b = Infinity THEN Infinity ELSE a + b

Transaction(type, amountCents, b, roundId) ==
  [ type |-> type, amountCents |-> amountCents,
    balanceAfterCents |-> b.balanceCents, roundId |-> roundId ]

\* placeBet(amountCents, roundId) on the balance record b; result is the
\* returned success flag
placeBet(b, amountCents, roundId) ==
  IF ~validateBetAmount(amountCents) THEN [b EXCEPT !.result = FALSE]
  ELSE
    LET refund == b.currentBet.status = "ACTIVE" /\ b.currentBet.roundId = roundId
        b1 == IF refund
              THEN [b EXCEPT !.balanceCents = Plus(@, b.currentBet.amountCents)]
              ELSE b
    IN  IF b1.balanceCents < amountCents THEN [b1 EXCEPT !.result = FALSE]
        ELSE
          LET b2 == [b1 EXCEPT
                       !.balanceCents = IF @ = Infinity THEN @ ELSE @ - amountCents,
                       !.currentBet =
                         [ roundId |-> roundId, amountCents |-> amountCents,
                           status |-> "ACTIVE", cashOutMultiplier |-> Null,
                           winningsCents |-> 0 ]]
          IN  [b2 EXCEPT
                 !.transactions =
                    Append(@, Transaction("BET", 0 - amountCents, b2, roundId)),
                 !.result = TRUE]

\* cashOut(multiplier) testing only that a bet exists
cashOut_AnyStatus(b, multiplier) ==
  IF b.currentBet = NoBet THEN [b EXCEPT !.result = FALSE]
  ELSE
    LET winningsCents == calculateWinnings(b.currentBet.amountCents, multiplier)
        b1 == [b EXCEPT !.currentBet.status = "CASHED_OUT",
                        !.currentBet.cashOutMultiplier = multiplier,
                        !.currentBet.winningsCents = winningsCents,
                        !.balanceCents = Plus(@, winningsCents)]
    IN  [b1 EXCEPT
           !.transactions =
              Append(@, Transaction("WIN", winningsCents, b1,
                                    b1.currentBet.roundId)),
           !.result = TRUE]

\* cashOut(multiplier)
cashOut(b, multiplier) ==
  IF b.currentBet.status # "ACTIVE" THEN [b EXCEPT !.result = FALSE]
  ELSE
    LET winningsCents == calculateWinnings(b.currentBet.amountCents, multiplier)
        b1 == [b EXCEPT !.currentBet.status = "CASHED_OUT",
                        !.currentBet.cashOutMultiplier = multiplier,
                        !.currentBet.winningsCents = winningsCents,
                        !.balanceCents = Plus(@, winningsCents)]
    IN  [b1 EXCEPT
           !.transactions =
              Append(@, Transaction("WIN", winningsCents, b1,
                                    b1.currentBet.roundId)),
           !.result = TRUE]

\* loseBet()
loseBet(b) ==
  IF b.currentBet.status # "ACTIVE" THEN b
  ELSE [b EXCEPT
          !.currentBet.status = "LOST",
          !.currentBet.winningsCents = 0,
          !.transactions =
             Append(@, Transaction("LOSS", 0, b, b.currentBet.roundId))]

\* cancelBet()
cancelBet(b) ==
  IF b.currentBet = NoBet THEN [b EXCEPT !.result = FALSE]
  ELSE
    LET refundAmount == b.currentBet.amountCents
        b1 == [b EXCEPT !.balanceCents = Plus(@, refundAmount)]
    IN  [b1 EXCEPT
           !.transactions =
              Append(@, Transaction("CANCEL", refundAmount, b1,
                                    b.currentBet.roundId)),
           !.currentBet = NoBet,
           !.result = TRUE]

\* clearCurrentBet()
clearCurrentBet(b) == [b EXCEPT !.currentBet = NoBet]

\* resetBalance()
resetBalance(b) ==
  [b EXCEPT !.balanceCents = DefaultBalance, !.currentBet = NoBet,
            !.transactions = << >>]

\* loadBalance() at module initialisation, from what saveBalance() stored:
\* data.balanceCents || DEFAULT_BALANCE, data.transactions || []
loadBalance(b) ==
  [ balanceCents |-> IF b.balanceCents = 0 THEN DefaultBalance ELSE b.balanceCents,
    currentBet |-> NoBet, transactions |-> b.transactions, result |-> TRUE ]

\* App.vue on('roundCrash'): the bet is lost if the player did not cash out
OnRoundCrash(b) == IF b.currentBet.status = "ACTIVE" THEN loseBet(b) ELSE b

RECURSIVE OnEvents(_, _)
\* the listeners of App.vue run on each emitted event, in order
OnEvents(evts, b) ==
  IF evts = << >> THEN b
  ELSE OnEvents(Tail(evts),
                IF Head(evts).type = "roundCrash" THEN OnRoundCrash(b) ELSE b)

\* App.vue watch on gameState.currentRound.state
StateWatcher(oldState, newState, b) ==
  IF oldState = "CRASHED" /\ newState = "BETTING" THEN clearCurrentBet(b) ELSE b

(***************************************************************************)
(* State                                                                   *)
(***************************************************************************)
VARIABLES
  currentRound,          \* gameState.currentRound
  isRunning,             \* gameState.isRunning
  countdown,             \* gameState.countdown
  animationId,           \* handle of the last requestAnimationFrame, or Null
  simulationIntervalId,  \* handle of the discretized-mode setInterval, or Null
  countdownInterval,     \* handle of the countdown setInterval, or Null
  rafCallbacks,          \* pending requestAnimationFrame(gameLoop) callbacks
  tickIntervals,         \* live setInterval(gameLoop) timers
  countdownTimers,       \* live countdown setInterval timers
  crashDelays,           \* pending 3000 ms setTimeout(generateNewRound)
  pendingRounds,         \* generateNewRound calls awaiting hashSeed
  storedEngine,          \* localStorage 'crashgame_engine'.lastRoundId, or Null
  events,                \* events emitted by the last step, in order
  roundStartEvt,         \* history: roundStart payload of the current round
  tickSourceAtStart,     \* history: tick source startRound chose
  stale,                 \* history: handles alive at the last forceRestartRound
  staleFired,            \* history: the last step ran a callback from stale
  stopped,               \* history: cleanup() was the last exported call
  committed,             \* history: settings read when the round was drawn
  installedIds,          \* history: last two roundIds since resetGame
  installedIdsAnyReset,  \* history: same, also cleared by App.handleReset
  debugState,            \* useDebugMode debugState
  storedDebug,           \* localStorage 'crashgame_debug' entry
  rtpFactor,             \* useRTPConfig rtpConfig.rtpFactor (percent)
  simulationEnabled,     \* useSimulationMode state.enabled
  now,                   \* wall clock, in steps of StepMs after Epoch
  calls,                 \* number of external calls made
  cryptoAvailable,       \* window.crypto exists in this browser
  initFailed,            \* history: the last round initialisation threw
  balanceCents,          \* balanceState.balanceCents
  currentBet,            \* balanceState.currentBet, or NoBet
  transactions,          \* balanceState.transactions
  betResult,             \* success flag returned by the last balance call
  betCalls,              \* number of bet requests made
  lastBetCall,           \* history: the last bet request and its argument
  configPhases,          \* useGrowthRateConfig state.phases
  phaseResult,           \* value returned by the last phase mutation
  phaseCalls,            \* number of phase mutations made
  lastPhaseCall,         \* history: the last phase mutation and its arguments
  elapsed1,              \* formula inputs: two elapsed times (ms)
  elapsed2,
  target,                \* formula input: a target multiplier (thousandths)
  multiplier1,           \* calculateCurrentMultiplier(elapsed1)
  multiplier2,           \* calculateCurrentMultiplier(elapsed2), the later call
  reachTime,             \* timeToReachMultiplier(target, phases), in ms
  reached,               \* calculateCurrentMultiplier(reachTime)
  lastEval,              \* the last seedToRandom call: seed, value, settings
  prevEval,              \* the seedToRandom call before it
  crashIn,               \* the arguments of the last calculateCrashPoint call
  crashOut               \* its value, or Err where it threw

engineVars == << currentRound, isRunning, countdown, animationId,
                 simulationIntervalId, countdownInterval, rafCallbacks,
                 tickIntervals, countdownTimers, crashDelays, pendingRounds,
                 storedEngine, events, roundStartEvt, tickSourceAtStart,
                 stale, staleFired, stopped, committed, installedIds,
                 installedIdsAnyReset, initFailed >>
configVars == << debugState, storedDebug, rtpFactor, simulationEnabled,
                 cryptoAvailable >>
betVars == << balanceCents, currentBet, transactions, betResult, betCalls,
             lastBetCall >>
phaseVars == << configPhases, phaseResult, phaseCalls, lastPhaseCall >>
formulaVars == << elapsed1, elapsed2, target, multiplier1, multiplier2,
                 reachTime, reached >>
randomVars == << evaluations, lastEval, prevEval, crashIn, crashOut >>
vars == << engineVars, configVars, now, calls, betVars, phaseVars,
           formulaVars, randomVars >>

\* calculateCurrentMultiplier(elapsedMs): the phases are read from the
\* growth-rate configuration at each call
calculateCurrentMultiplier(elapsedMs) == MultiplierAt(configPhases, elapsedMs)

(***************************************************************************)
(* useGameEngine: construction and helpers                                 *)
(***************************************************************************)

Ids == 1..MaxIds
NoSeed == << >>
None == [type |-> "none"]

DateNow == Epoch + now * StepMs

\* the reactive gameState.currentRound built by useGameEngine()
InitialRound(lastRoundId) ==
  [ roundId |-> lastRoundId, seed |-> NoSeed, seedHash |-> Null,
    crashPoint |-> 0, state |-> "BETTING", startTime |-> 0,
    crashTime |-> Null, currentMultiplier |-> MScale, elapsedTime |-> 0,
    debugMode |-> FALSE ]

\* variant: the persisted lastRoundId is not read
LoadLastRoundId_Forget(stored) == 0

\* data.lastRoundId || 0
LoadLastRoundId(stored) == IF stored = Null THEN 0 ELSE stored

\* the engine as one record, for composing the handlers' calls
Eng ==
  [ currentRound |-> currentRound, isRunning |-> isRunning,
    countdown |-> countdown, animationId |-> animationId,
    simulationIntervalId |-> simulationIntervalId,
    countdownInterval |-> countdownInterval, rafCallbacks |-> rafCallbacks,
    tickIntervals |-> tickIntervals, countdownTimers |-> countdownTimers,
    crashDelays |-> crashDelays, pendingRounds |-> pendingRounds,
    storedEngine |-> storedEngine, events |-> << >>,
    roundStartEvt |-> roundStartEvt, tickSourceAtStart |-> tickSourceAtStart,
    stale |-> stale, staleFired |-> FALSE, stopped |-> stopped,
    committed |-> committed, installedIds |-> installedIds,
    installedIdsAnyReset |-> installedIdsAnyReset,
    initFailed |-> initFailed ]

LiveIds(e) ==
  e.rafCallbacks \cup e.tickIntervals \cup e.countdownTimers \cup e.crashDelays
    \cup { p.id : p \in e.pendingRounds }

UsedIds(e) ==
  LiveIds(e) \cup
  ({ e.animationId, e.simulationIntervalId, e.countdownInterval } \ { Null })

\* handles are never reused while referenced; the smallest free one is taken
FreshId(e) ==
  Once(Ids \ UsedIds(e), LAMBDA free :
    CHOOSE i \in free : \A j \in free : i <= j)

Room(e, n) == Cardinality(Ids \ UsedIds(e)) >= n

SetEng(e) ==
  \E v \in {e} :
    /\ currentRound' = v.currentRound
    /\ isRunning' = v.isRunning
    /\ countdown' = v.countdown
    /\ animationId' = v.animationId
    /\ simulationIntervalId' = v.simulationIntervalId
    /\ countdownInterval' = v.countdownInterval
    /\ rafCallbacks' = v.rafCallbacks
    /\ tickIntervals' = v.tickIntervals
    /\ countdownTimers' = v.countdownTimers
    /\ crashDelays' = v.crashDelays
    /\ pendingRounds' = v.pendingRounds
    /\ storedEngine' = v.storedEngine
    /\ events' = v.events
    /\ roundStartEvt' = v.roundStartEvt
    /\ tickSourceAtStart' = v.tickSourceAtStart
    /\ stale' = v.stale \cap LiveIds(v)
    /\ staleFired' = v.staleFired
    /\ stopped' = v.stopped
    /\ committed' = v.committed
    /\ installedIds' = v.installedIds
    /\ installedIdsAnyReset' = v.installedIdsAnyReset
    /\ initFailed' = v.initFailed

emit(e, event) == [e EXCEPT !.events = Append(@, event)]

(***************************************************************************)
(* useGameEngine: the handlers, as functions of the engine record          *)
(***************************************************************************)
\* variant: no next round is scheduled after a crash
crashRound_NoNextRound(engine, t) ==
  Once(engine, LAMBDA e :
    LET e1 == [e EXCEPT !.currentRound.state = "CRASHED",
                        !.currentRound.crashTime = t,
                        !.isRunning = FALSE]
        e2 == IF e1.animationId # Null
              THEN [e1 EXCEPT !.rafCallbacks = @ \ {e1.animationId},
                              !.animationId = Null]
              ELSE e1
        e3 == IF e2.simulationIntervalId # Null
              THEN [e2 EXCEPT !.tickIntervals = @ \ {e2.simulationIntervalId},
                              !.simulationIntervalId = Null]
              ELSE e2
    IN  emit(e3, [type |-> "roundCrash",
                  roundId |-> e3.currentRound.roundId,
                  crashPoint |-> e3.currentRound.crashPoint,
                  seed |-> e3.currentRound.seed]))

\* crashRound(): t is Date.now()
crashRound(engine, t) ==
  Once(engine, LAMBDA e :
    LET e1 == [e EXCEPT !.currentRound.state = "CRASHED",
                        !.currentRound.crashTime = t,
                        !.isRunning = FALSE]
        e2 == IF e1.animationId # Null
              THEN [e1 EXCEPT !.rafCallbacks = @ \ {e1.animationId},
                              !.animationId = Null]
              ELSE e1
        e3 == IF e2.simulationIntervalId # Null
              THEN [e2 EXCEPT !.tickIntervals = @ \ {e2.simulationIntervalId},
                              !.simulationIntervalId = Null]
              ELSE e2
        e4 == emit(e3, [type |-> "roundCrash",
                        roundId |-> e3.currentRound.roundId,
                        crashPoint |-> e3.currentRound.crashPoint,
                        seed |-> e3.currentRound.seed])
    IN  \* setTimeout(() => generateNewRound(), 3000): the handle is dropped
        [e4 EXCEPT !.crashDelays = @ \cup {FreshId(e4)}])

\* gameLoop(): t is Date.now(), sim is simulationMode.enabled
gameLoop(engine, t, sim) ==
  Once(engine, LAMBDA e :
    LET elapsedMs == t - e.currentRound.startTime
    IN  Once(calculateCurrentMultiplier(elapsedMs), LAMBDA multiplier :
          LET e1 == [e EXCEPT !.currentRound.elapsedTime = elapsedMs,
                              !.currentRound.currentMultiplier = multiplier]
              e2 == emit(e1, [type |-> "multiplierUpdate",
                              multiplier |-> multiplier,
                              elapsedTime |-> elapsedMs])
          IN  IF multiplier >= e2.currentRound.crashPoint
              THEN crashRound(e2, t)
              ELSE IF ~sim
              THEN LET id == FreshId(e2)
                   IN  [e2 EXCEPT !.animationId = id,
                                  !.rafCallbacks = @ \cup {id}]
              ELSE e2))

\* startRound()
startRound(engine, t, sim) ==
  Once(engine, LAMBDA e :
    LET e1 == [e EXCEPT !.currentRound.state = "RUNNING",
                        !.currentRound.startTime = t,
                        !.isRunning = TRUE]
        start == [type |-> "roundStart",
                  roundId |-> e1.currentRound.roundId,
                  seedHash |-> e1.currentRound.seedHash]
        e2 == [emit(e1, start) EXCEPT
                 !.roundStartEvt = start,
                 !.tickSourceAtStart = IF sim THEN "interval" ELSE "frame"]
    IN  IF sim
        THEN LET id == FreshId(e2)
             IN  gameLoop([e2 EXCEPT !.simulationIntervalId = id,
                                     !.tickIntervals = @ \cup {id}], t, sim)
        ELSE gameLoop(e2, t, sim))

\* variant: a running countdown interval is not cleared
startCountdown_NoClear(engine, seconds) ==
  Once(engine, LAMBDA e :
    LET e1 == [e EXCEPT !.countdown = seconds]
        id == FreshId(e1)
    IN  [e1 EXCEPT !.countdownInterval = id, !.countdownTimers = @ \cup {id}])

\* startCountdown(seconds)
startCountdown(engine, seconds) ==
  Once(engine, LAMBDA e :
    LET e1 == [e EXCEPT !.countdown = seconds]
        e2 == IF e1.countdownInterval # Null
              THEN [e1 EXCEPT !.countdownTimers = @ \ {e1.countdownInterval}]
              ELSE e1
        id == FreshId(e2)
    IN  [e2 EXCEPT !.countdownInterval = id, !.countdownTimers = @ \cup {id}])

\* the callback of the countdown setInterval
countdownCallback(engine, t, sim) ==
  Once(engine, LAMBDA e :
    LET e1 == [e EXCEPT !.countdown = @ - 1]
    IN  IF e1.countdown <= 0
        THEN startRound([e1 EXCEPT !.countdownTimers = @ \ {e1.countdownInterval},
                                   !.countdownInterval = Null], t, sim)
        ELSE e1)

\* cleanup()
cleanup(engine) ==
  Once(engine, LAMBDA e :
    LET e1 == IF e.animationId # Null
              THEN [e EXCEPT !.rafCallbacks = @ \ {e.animationId},
                             !.animationId = Null]
              ELSE e
        e2 == IF e1.simulationIntervalId # Null
              THEN [e1 EXCEPT !.tickIntervals = @ \ {e1.simulationIntervalId},
                              !.simulationIntervalId = Null]
              ELSE e1
        e3 == IF e2.countdownInterval # Null
              THEN [e2 EXCEPT !.countdownTimers = @ \ {e2.countdownInterval},
                              !.countdownInterval = Null]
              ELSE e2
    IN  [e3 EXCEPT !.isRunning = FALSE])

\* what generateSeed() yields: a seed, or Thrown where window.crypto is
\* undefined (getRandomValues of undefined is a TypeError)
Thrown == << Err >>
generateSeed == IF cryptoAvailable THEN Seeds ELSE {Thrown}

\* variant: the override is not consulted
ChooseCrashPoint_NoOverride(dbg, random, rtp) ==
  calculateCrashPoint(random, rtp)

\* generateNewRound, lines 1401-1410: the crash point of the new round
ChooseCrashPoint(dbg, random, rtp) ==
  IF isDebugActive(dbg) THEN getDebugCrashPoint(dbg)
  ELSE calculateCrashPoint(random, rtp)

\* generateNewRound(countdownSeconds) up to "await hashSeed(seed)"; a throw
\* of generateSeed or calculateCrashPoint rejects the promise the callers
\* drop, and nothing is left pending
generateNewRound(engine, seed, countdownSeconds, dbg, rtp) ==
  Once(engine, LAMBDA e :
    LET random == seedToRandom(seed)
        crashPoint == IF seed = Thrown THEN Err
                      ELSE ChooseCrashPoint(dbg, random, rtp)
        debugMode == isDebugActive(dbg)
    IN  IF crashPoint = Err THEN [e EXCEPT !.initFailed = TRUE]
        ELSE [e EXCEPT !.initFailed = FALSE, !.pendingRounds = @ \cup
               {[ id |-> FreshId(e), seed |-> seed, crashPoint |-> crashPoint,
                  debugMode |-> debugMode, countdownSeconds |-> countdownSeconds,
                  read |-> [active |-> isDebugActive(dbg),
                            override |-> getDebugCrashPoint(dbg),
                            rtp |-> rtp] ]}])

\* const newRoundId = gameState.currentRound.roundId + 1
NewRoundId(roundId) == roundId + 1

\* variant: the round object is built without the awaited hash
NewRound_NoHash(newRoundId, seed, seedHash, crashPoint, debugMode) ==
  [ roundId |-> newRoundId, seed |-> seed, seedHash |-> Null,
    crashPoint |-> crashPoint, state |-> "BETTING", startTime |-> 0,
    crashTime |-> Null, currentMultiplier |-> MScale, elapsedTime |-> 0,
    debugMode |-> debugMode ]

\* the round object of lines 1416-1427
NewRound(newRoundId, seed, seedHash, crashPoint, debugMode) ==
  [ roundId |-> newRoundId, seed |-> seed, seedHash |-> seedHash,
    crashPoint |-> crashPoint, state |-> "BETTING", startTime |-> 0,
    crashTime |-> Null, currentMultiplier |-> MScale, elapsedTime |-> 0,
    debugMode |-> debugMode ]

\* saveRoundId(roundId): the value left under 'crashgame_engine'
saveRoundId(roundId) == roundId

LastTwo(seq, x) == IF Len(seq) = 0 THEN << x >> ELSE << seq[Len(seq)], x >>

\* generateNewRound after the await: install the round, start the countdown
installRound(engine, p) ==
  Once(engine, LAMBDA e :
    LET seedHash == hashSeed(p.seed)
        newRoundId == NewRoundId(e.currentRound.roundId)
        e1 == [e EXCEPT
                 !.pendingRounds = @ \ {p},
                 !.currentRound = NewRound(newRoundId, p.seed, seedHash,
                                           p.crashPoint, p.debugMode),
                 !.storedEngine = saveRoundId(newRoundId),
                 !.roundStartEvt = None,
                 !.tickSourceAtStart = "none",
                 !.committed = p.read,
                 !.installedIds = LastTwo(@, newRoundId),
                 !.installedIdsAnyReset = LastTwo(@, newRoundId)]
    IN  startCountdown(e1, p.countdownSeconds))

(***************************************************************************)
(* Page load; the initial state is the first one, nothing persisted        *)
(***************************************************************************)
\* values the debug panel may submit to setDebugCrashPoint (thousandths)
DebugInputs == {500, 1500, 10001 * MScale}
\* values the RTP panel may submit to setRTPPercentage
RtpInputs == {0, 50}

\* useGameEngine() construction, given the persisted lastRoundId; ids and
\* idsAnyReset carry the roundId history over a reload
Construct(stored, ids, idsAnyReset) ==
  [ currentRound |-> InitialRound(LoadLastRoundId(stored)),
    isRunning |-> FALSE, countdown |-> DefaultCountdown,
    animationId |-> Null, simulationIntervalId |-> Null,
    countdownInterval |-> Null, rafCallbacks |-> {}, tickIntervals |-> {},
    countdownTimers |-> {}, crashDelays |-> {}, pendingRounds |-> {},
    storedEngine |-> stored, events |-> << >>, roundStartEvt |-> None,
    tickSourceAtStart |-> "none", stale |-> {}, staleFired |-> FALSE,
    stopped |-> FALSE, committed |-> None, installedIds |-> ids,
    installedIdsAnyReset |-> idsAnyReset, initFailed |-> FALSE ]

\* page load: the modules are initialised from localStorage, the engine is
\* constructed and App's onMounted calls init()
PageLoad(stored, dbg, rtp, seed, ids, idsAnyReset) ==
  generateNewRound(Construct(stored, ids, idsAnyReset), seed,
                   DefaultCountdown, dbg, rtp)

InitEng(e) ==
  /\ currentRound = e.currentRound
  /\ isRunning = e.isRunning
  /\ countdown = e.countdown
  /\ animationId = e.animationId
  /\ simulationIntervalId = e.simulationIntervalId
  /\ countdownInterval = e.countdownInterval
  /\ rafCallbacks = e.rafCallbacks
  /\ tickIntervals = e.tickIntervals
  /\ countdownTimers = e.countdownTimers
  /\ crashDelays = e.crashDelays
  /\ pendingRounds = e.pendingRounds
  /\ storedEngine = e.storedEngine
  /\ events = e.events
  /\ roundStartEvt = e.roundStartEvt
  /\ tickSourceAtStart = e.tickSourceAtStart
  /\ stale = e.stale
  /\ staleFired = e.staleFired
  /\ stopped = e.stopped
  /\ committed = e.committed
  /\ installedIds = e.installedIds
  /\ installedIdsAnyReset = e.installedIdsAnyReset
  /\ initFailed = e.initFailed

InitEngine ==
  /\ debugState = LoadDebugState(Absent)
  /\ storedDebug = LoadDebugStore(Absent)
  /\ rtpFactor = DefaultRtp
  /\ simulationEnabled = TRUE
  /\ now = 0
  /\ calls = 0
  /\ cryptoAvailable \in BOOLEAN
  /\ \E seed \in generateSeed :
       InitEng(PageLoad(Null, debugState, rtpFactor, seed, << >>, << >>))

InitBalance ==
  /\ balanceCents = DefaultBalance
  /\ currentBet = NoBet
  /\ transactions = << >>
  /\ betResult = TRUE
  /\ betCalls = 0
  /\ lastBetCall = [op |-> "none", amountCents |-> 0]

NoPhaseCall == [op |-> "none", index |-> 0, value |-> 0]

InitPhaseStore ==
  /\ configPhases = DefaultPhases
  /\ phaseResult = TRUE
  /\ phaseCalls = 0
  /\ lastPhaseCall = NoPhaseCall

\* no formula call yet: the values at the start of a round
InitFormula ==
  /\ elapsed1 = 0
  /\ elapsed2 = 0
  /\ target = MScale
  /\ multiplier1 = MScale
  /\ multiplier2 = MScale
  /\ reachTime = 0
  /\ reached = MScale

\* no seedToRandom or calculateCrashPoint call made from outside the engine
NoCrashCall == [randomValue |-> NaN, rtpFactor |-> NaN]
NoEval == [seed |-> NoSeed, random |-> NaN, settings |-> << >>]

InitRandom ==
  /\ evaluations = 0
  /\ lastEval = NoEval
  /\ prevEval = NoEval
  /\ crashIn = NoCrashCall
  /\ crashOut = NaN

Init ==
  InitEngine /\ InitBalance /\ InitPhaseStore /\ InitFormula /\ InitRandom

(***************************************************************************)
(* Exported operations of the engine                                       *)
(***************************************************************************)
Call == calls < MaxCalls /\ calls' = calls + 1

\* the balance store as one record
Bal ==
  [ balanceCents |-> balanceCents, currentBet |-> currentBet,
    transactions |-> transactions, result |-> betResult ]

SetBal(b) ==
  /\ balanceCents' = b.balanceCents
  /\ currentBet' = b.currentBet
  /\ transactions' = b.transactions
  /\ betResult' = b.result

\* what App.vue does in the same task as an engine step: its roundCrash
\* listener runs inside emit, its watcher on the round state afterwards
AppReacts ==
  /\ SetBal(StateWatcher(currentRound.state, currentRound'.state,
                         OnEvents(events', Bal)))
  /\ UNCHANGED << betCalls, lastBetCall >>

\* the stores an engine or settings step does not touch
Frame == AppReacts /\ UNCHANGED << cryptoAvailable, phaseVars, formulaVars,
                  randomVars >>

\* init()
InitCall ==
  /\ Call /\ Room(Eng, 2)
  /\ \E seed \in generateSeed :
       SetEng(generateNewRound([Eng EXCEPT !.stopped = FALSE], seed,
                               DefaultCountdown, debugState, rtpFactor))
  /\ UNCHANGED << configVars, now >>
  /\ Frame

\* cleanup()
CleanupCall ==
  /\ Call
  /\ SetEng([cleanup(Eng) EXCEPT !.stopped = TRUE])
  /\ UNCHANGED << configVars, now >>
  /\ Frame

\* resetGame()
ResetGame ==
  /\ Call /\ Room(Eng, 2)
  /\ \E seed \in generateSeed :
       LET e1 == cleanup(Eng)
           e2 == [e1 EXCEPT !.storedEngine = Null,
                            !.currentRound.roundId = 0,
                            !.installedIds = << >>,
                            !.installedIdsAnyReset = << >>,
                            !.stopped = FALSE]
       IN  SetEng(generateNewRound(e2, seed, DefaultCountdown,
                                   debugState, rtpFactor))
  /\ UNCHANGED << configVars, now >>
  /\ Frame

\* forceRestartRound()
ForceRestartRound ==
  /\ Call /\ Room(Eng, 2)
  /\ \E seed \in generateSeed :
       LET e1 == cleanup(Eng)
           e2 == [e1 EXCEPT !.stale = LiveIds(e1), !.stopped = FALSE]
       IN  SetEng(generateNewRound(e2, seed, ForceCountdown,
                                   debugState, rtpFactor))
  /\ UNCHANGED << configVars, now >>
  /\ Frame

(***************************************************************************)
(* Timers, animation frames and the hash promise                           *)
(***************************************************************************)
Fired(id) == [Eng EXCEPT !.staleFired = (id \in stale)]

\* the countdown setInterval fires
CountdownTick ==
  /\ \E id \in countdownTimers :
       /\ Room(Eng, 2)
       /\ SetEng(countdownCallback(Fired(id), DateNow, simulationEnabled))
  /\ UNCHANGED << configVars, now, calls >>
  /\ Frame

\* a requestAnimationFrame callback runs gameLoop
AnimationFrame ==
  /\ \E id \in rafCallbacks :
       /\ Room(Eng, 2)
       /\ SetEng(gameLoop([Fired(id) EXCEPT !.rafCallbacks = @ \ {id}],
                          DateNow, simulationEnabled))
  /\ UNCHANGED << configVars, now, calls >>
  /\ Frame

\* the discretized-mode setInterval runs gameLoop
SimulationTick ==
  /\ \E id \in tickIntervals :
       /\ Room(Eng, 2)
       /\ SetEng(gameLoop(Fired(id), DateNow, simulationEnabled))
  /\ UNCHANGED << configVars, now, calls >>
  /\ Frame

\* the 3000 ms timeout set by crashRound calls generateNewRound()
CrashDelayFires ==
  /\ \E id \in crashDelays, seed \in generateSeed :
       /\ Room(Eng, 2)
       /\ SetEng(generateNewRound([Fired(id) EXCEPT !.crashDelays = @ \ {id}],
                                  seed, DefaultCountdown, debugState, rtpFactor))
  /\ UNCHANGED << configVars, now, calls >>
  /\ Frame

\* hashSeed resolves and generateNewRound resumes
HashResolved ==
  /\ \E p \in pendingRounds :
       /\ Room(Eng, 2)
       /\ currentRound.roundId < MaxRoundId
       /\ SetEng(installRound(Fired(p.id), p))
  /\ UNCHANGED << configVars, now, calls >>
  /\ Frame

\* time passes
AdvanceClock ==
  /\ now < MaxNow
  /\ now' = now + 1
  /\ SetEng(Eng)
  /\ UNCHANGED << configVars, calls >>
  /\ Frame

(***************************************************************************)
(* Settings panels                                                         *)
(***************************************************************************)
\* enableSimulation()
EnableSimulation ==
  /\ Call
  /\ simulationEnabled' = TRUE
  /\ SetEng(Eng)
  /\ UNCHANGED << debugState, storedDebug, rtpFactor, now >>
  /\ Frame

\* disableSimulation()
DisableSimulation ==
  /\ Call
  /\ simulationEnabled' = FALSE
  /\ SetEng(Eng)
  /\ UNCHANGED << debugState, storedDebug, rtpFactor, now >>
  /\ Frame

\* variant: no upper limit on the override
setDebugCrashPoint_NoMax(dbg, value) ==
  IF value < MinCrashPoint THEN dbg
  ELSE [crashPointOverride |-> value, isActive |-> TRUE]

\* setDebugCrashPoint(multiplier): the resulting debugState
setDebugCrashPoint(dbg, value) ==
  IF value < MinCrashPoint THEN dbg
  ELSE IF value > MaxCrashPoint THEN dbg
  ELSE [crashPointOverride |-> value, isActive |-> TRUE]

\* variant: an accepted override is applied to the current round at once
SetDebugCrashPoint_Live ==
  /\ Call
  /\ \E value \in DebugInputs :
       /\ debugState' = setDebugCrashPoint(debugState, value)
       /\ storedDebug' = IF value < MinCrashPoint \/ value > MaxCrashPoint
                         THEN storedDebug ELSE saveToStorage(debugState')
       /\ SetEng(IF value < MinCrashPoint \/ value > MaxCrashPoint THEN Eng
                 ELSE [Eng EXCEPT !.currentRound.crashPoint = value,
                                  !.currentRound.debugMode = TRUE])
  /\ UNCHANGED << rtpFactor, simulationEnabled, now >>
  /\ Frame

\* the debug panel submits a value to setDebugCrashPoint
SubmitDebugCrashPoint ==
  /\ \E value \in DebugInputs :
       /\ debugState' = setDebugCrashPoint(debugState, value)
       /\ storedDebug' = IF value < MinCrashPoint \/ value > MaxCrashPoint
                         THEN storedDebug ELSE saveToStorage(debugState')
  /\ SetEng(Eng)
  /\ UNCHANGED << rtpFactor, simulationEnabled, now >>
  /\ Frame

SetDebugCrashPoint == Call /\ SubmitDebugCrashPoint

\* clearDebugCrashPoint(): the resulting debugState and storage entry
clearDebugCrashPoint(dbg, stored) ==
  LET cleared == [crashPointOverride |-> Null, isActive |-> FALSE]
  IN  [state |-> cleared, stored |-> saveToStorage(cleared)]

\* the debug panel's clear button
ClearOverride ==
  /\ debugState' = clearDebugCrashPoint(debugState, storedDebug).state
  /\ storedDebug' = clearDebugCrashPoint(debugState, storedDebug).stored
  /\ SetEng(Eng)
  /\ UNCHANGED << rtpFactor, simulationEnabled, now >>
  /\ Frame

\* clearDebugCrashPoint()
ClearDebugCrashPoint == Call /\ ClearOverride

\* setRTPPercentage(percentage): clamped between 1 and 100
setRTPPercentage(percentage) == Min(Max(percentage, 1), 100)

SetRTPPercentage ==
  /\ Call
  /\ \E percentage \in RtpInputs : rtpFactor' = setRTPPercentage(percentage)
  /\ SetEng(Eng)
  /\ UNCHANGED << debugState, storedDebug, simulationEnabled, now >>
  /\ Frame

\* setRTPFactor(factor): clamped between 0.01 and 1.0 (here in percent)
setRTPFactor(factor) == Min(Max(factor, 1), 100)

SetRTPFactor ==
  /\ Call
  /\ \E factor \in RtpInputs : rtpFactor' = setRTPFactor(factor)
  /\ SetEng(Eng)
  /\ UNCHANGED << debugState, storedDebug, simulationEnabled, now >>
  /\ Frame

(***************************************************************************)
(* Page reload                                                             *)
(***************************************************************************)
\* the page is loaded again: timers and promises are gone, the modules are
\* initialised from what localStorage holds
LoadPage(stored, ids, idsAnyReset, b) ==
  /\ debugState' = LoadDebugState(storedDebug)
  /\ storedDebug' = LoadDebugStore(storedDebug)
  /\ \E seed \in generateSeed :
       SetEng(PageLoad(stored, LoadDebugState(storedDebug), rtpFactor, seed,
                       ids, idsAnyReset))
  /\ SetBal(loadBalance(b))
  /\ UNCHANGED << rtpFactor, simulationEnabled, now, cryptoAvailable,
                  betCalls, lastBetCall, phaseVars, formulaVars,
                  randomVars >>

Reload ==
  /\ Call
  /\ LoadPage(storedEngine, installedIds, installedIdsAnyReset, Bal)

\* App.handleReset: resetBalance(), removeItem('crashgame_engine'),
\* window.location.reload()
HandleReset ==
  /\ Call
  /\ LoadPage(Null, installedIds, << >>, resetBalance(Bal))

(***************************************************************************)
(* The debug override over page loads                                      *)
(***************************************************************************)
\* the page is loaded again with what localStorage holds
ReloadPage ==
  /\ LoadPage(storedEngine, installedIds, installedIdsAnyReset, Bal)
  /\ UNCHANGED calls

\* the debug panel, page reloads, and the rounds being installed
NextDebug ==
  \/ SubmitDebugCrashPoint /\ UNCHANGED calls
  \/ ClearOverride /\ UNCHANGED calls
  \/ ReloadPage
  \/ HashResolved

SpecDebug == Init /\ [][NextDebug]_vars

Next ==
  \/ InitCall
  \/ CleanupCall
  \/ ResetGame
  \/ ForceRestartRound
  \/ CountdownTick
  \/ AnimationFrame
  \/ SimulationTick
  \/ CrashDelayFires
  \/ HashResolved
  \/ AdvanceClock
  \/ EnableSimulation
  \/ DisableSimulation
  \/ SetDebugCrashPoint
  \/ ClearDebugCrashPoint
  \/ SetRTPPercentage
  \/ SetRTPFactor
  \/ Reload
  \/ HandleReset

Spec == Init /\ [][Next]_vars

(***************************************************************************)
(* The engine left to its timers                                           *)
(***************************************************************************)
\* page load with either persisted simulation setting
InitLive ==
  /\ debugState = LoadDebugState(Absent)
  /\ storedDebug = LoadDebugStore(Absent)
  /\ rtpFactor = DefaultRtp
  /\ simulationEnabled \in BOOLEAN
  /\ now = 0
  /\ calls = 0
  /\ cryptoAvailable \in BOOLEAN
  /\ \E seed \in generateSeed :
       InitEng(PageLoad(Null, debugState, rtpFactor, seed, << >>, << >>))
  /\ InitBalance /\ InitPhaseStore /\ InitFormula /\ InitRandom

\* timers, frames and promises run when they are due, and time passes
TimersFair ==
  /\ WF_vars(CountdownTick)
  /\ WF_vars(AnimationFrame)
  /\ WF_vars(SimulationTick)
  /\ WF_vars(CrashDelayFires)
  /\ WF_vars(HashResolved)
  /\ WF_vars(AdvanceClock)

\* the exported operations that call cleanup() (cleanup, resetGame,
\* forceRestartRound) are not used; init() may be called again and the
\* simulation mode may be switched
NextLive ==
  \/ CountdownTick
  \/ AnimationFrame
  \/ SimulationTick
  \/ CrashDelayFires
  \/ HashResolved
  \/ AdvanceClock
  \/ InitCall
  \/ EnableSimulation
  \/ DisableSimulation

SpecLive == InitLive /\ [][NextLive]_vars /\ TimersFair

(***************************************************************************)
(* App.vue: the bet requests of the betting panel                          *)
(***************************************************************************)
\* amounts (cents) the panel may submit: below the minimum, and two stakes
BetAmounts == {50, 30000, 60000}

BetCall(op, amountCents) ==
  /\ betCalls < MaxBetCalls
  /\ betCalls' = betCalls + 1
  /\ lastBetCall' = [op |-> op, amountCents |-> amountCents]

\* a bet request leaves the engine and the settings alone
BetFrame ==
  /\ SetEng(Eng)
  /\ UNCHANGED << configVars, now, calls, phaseVars, formulaVars,
                  randomVars >>

\* handlePlaceBet(amountCents)
HandlePlaceBet ==
  /\ \E amountCents \in BetAmounts :
       /\ BetCall("placeBet", amountCents)
       /\ SetBal(placeBet(Bal, amountCents, currentRound.roundId))
  /\ BetFrame

\* handleCashOut()
HandleCashOut ==
  /\ BetCall("cashOut", 0)
  /\ SetBal(cashOut(Bal, currentRound.currentMultiplier))
  /\ BetFrame

\* handleCancelBet()
HandleCancelBet ==
  /\ BetCall("cancelBet", 0)
  /\ SetBal(cancelBet(Bal))
  /\ BetFrame

\* the engine left to its timers, and the player
NextBet ==
  \/ CountdownTick
  \/ SimulationTick
  \/ CrashDelayFires
  \/ HashResolved
  \/ AdvanceClock
  \/ HandlePlaceBet
  \/ HandleCashOut
  \/ HandleCancelBet

SpecBet == Init /\ [][NextBet]_vars


(***************************************************************************)
(* The growth-rate panel: mutations of the phase store                     *)
(***************************************************************************)
\* arguments the panel may pass
PhaseIndices == {0, 1, Len(configPhases) - 1, Len(configPhases)}
AfterIndices == {-1, 0, 1, Len(configPhases) - 1, Len(configPhases)}
EndTimeInputs == {0, 10000, 24999, 30000}
RateInputs == {0, 5, 500}

PhaseOutcome(op, index, value, o) ==
  /\ phaseCalls < MaxPhaseCalls
  /\ phaseCalls' = phaseCalls + 1
  /\ lastPhaseCall' = [op |-> op, index |-> index, value |-> value]
  /\ configPhases' = o.phases
  /\ phaseResult' = o.result

\* a phase mutation leaves the engine, the settings and the balance alone
PhaseFrame ==
  /\ SetEng(Eng)
  /\ UNCHANGED << configVars, now, calls, betVars, formulaVars,
                  randomVars >>

SetGrowthRate ==
  /\ \E index \in PhaseIndices, value \in RateInputs :
       PhaseOutcome("setGrowthRate", index, value,
                    setGrowthRate(configPhases, index, value))
  /\ PhaseFrame

SetPhaseEndTime ==
  /\ \E index \in PhaseIndices, timeMs \in EndTimeInputs :
       PhaseOutcome("setPhaseEndTime", index, timeMs,
                    setPhaseEndTime(configPhases, index, timeMs))
  /\ PhaseFrame

AddPhase ==
  /\ \E afterIndex \in AfterIndices :
       PhaseOutcome("addPhase", afterIndex, 0,
                    addPhase(configPhases, afterIndex))
  /\ PhaseFrame

RemovePhase ==
  /\ \E index \in PhaseIndices :
       PhaseOutcome("removePhase", index, 0,
                    removePhase(configPhases, index))
  /\ PhaseFrame

ResetToDefaults ==
  /\ PhaseOutcome("resetToDefaults", 0, 0, resetToDefaults(configPhases))
  /\ PhaseFrame

NextPhases ==
  \/ SetGrowthRate
  \/ SetPhaseEndTime
  \/ AddPhase
  \/ RemovePhase
  \/ ResetToDefaults

RECURSIVE Appended(_, _)
\* the phases after k calls of addPhase() on ps
Appended(ps, k) ==
  IF k = 0 THEN ps ELSE Appended(addPhase(ps, -1).phases, k - 1)

\* the default configuration, grown by the panel's "add phase" button
InitPhases ==
  /\ InitEngine /\ InitBalance /\ InitFormula /\ InitRandom
  /\ configPhases \in { Appended(DefaultPhases, k) : k \in 0..(MAX_PHASES - 3) }
  /\ phaseResult = TRUE
  /\ phaseCalls = 0
  /\ lastPhaseCall = NoPhaseCall

SpecPhases == InitPhases /\ [][NextPhases]_vars

(***************************************************************************)
(* crashFormula: the curve and its inverse on a fixed configuration        *)
(***************************************************************************)
\* the two-phase configuration of the unit tests
TwoPhases ==
  << [id |-> 1, rate |-> 1000, endTime |-> 10000],
     [id |-> 2, rate |-> 2000, endTime |-> Null] >>

\* the three-phase configuration of the unit tests
ThreePhases ==
  << [id |-> 1, rate |-> 500,  endTime |-> 10000],
     [id |-> 2, rate |-> 1000, endTime |-> 20000],
     [id |-> 3, rate |-> 2000, endTime |-> Null] >>

\* valid configurations: the last phase infinite, end times strictly
\* increasing, rates positive
FormulaConfigs ==
  { DefaultPhases, TwoPhases, ThreePhases, Appended(DefaultPhases, 1) }

\* the interior boundaries of ps: the phases with a finite end time
Boundaries(ps) == { i \in 1..Len(ps) : ps[i].endTime # Null }

\* how far past the last boundary the curve is sampled
PastLastMs == 15000

\* elapsedMs arguments: around the round start, around every boundary, and
\* inside the last phase
ElapsedInputs(ps) ==
  { -100, 0, 1, 5000 }
    \cup UNION { { ps[i].endTime - 1, ps[i].endTime, ps[i].endTime + 1 } :
                 i \in Boundaries(ps) }
    \cup { ps[Len(ps) - 1].endTime + PastLastMs }

\* targetMultiplier arguments: at and below 1.00, inside every phase, and
\* exactly the multiplier at every boundary
TargetInputs(ps) ==
  { 500, MScale, 1001, 1500, 5000, 8000, 100000, 2000000 }
    \cup { MultiplierAt(ps, ps[i].endTime) : i \in Boundaries(ps) }

FormulaFrame ==
  UNCHANGED << engineVars, configVars, now, calls, betVars, phaseVars,
               randomVars >>

\* calculateCurrentMultiplier(t): the previous sample is kept beside the new
CalculateCurrentMultiplier ==
  /\ \E t \in ElapsedInputs(configPhases) :
       /\ elapsed1' = elapsed2
       /\ multiplier1' = multiplier2
       /\ elapsed2' = t
       /\ multiplier2' = calculateCurrentMultiplier(t)
  /\ UNCHANGED << target, reachTime, reached >>
  /\ FormulaFrame

\* timeToReachMultiplier(m, phases), then the multiplier at that time
TimeToReachMultiplier ==
  /\ \E m \in TargetInputs(configPhases) :
       LET time == timeToReachMultiplier(m, configPhases)
       IN  /\ target' = m
           /\ reachTime' = time
           /\ reached' = calculateCurrentMultiplier(time)
  /\ UNCHANGED << elapsed1, elapsed2, multiplier1, multiplier2 >>
  /\ FormulaFrame

NextFormula ==
  \/ CalculateCurrentMultiplier
  \/ TimeToReachMultiplier

InitFormulaConfig ==
  /\ InitEngine /\ InitBalance /\ InitFormula /\ InitRandom
  /\ configPhases \in FormulaConfigs
  /\ phaseResult = TRUE
  /\ phaseCalls = 0
  /\ lastPhaseCall = NoPhaseCall

SpecFormula == InitFormulaConfig /\ [][NextFormula]_vars

(***************************************************************************)
(* randomGenerator and crashFormula: the crash point of a seed             *)
(***************************************************************************)
\* number of seedToRandom calls made
MaxEvaluations == 2

\* 32-hex-character seeds: all zeros, all f's and the generated samples
SeedInputs ==
  Seeds \cup { [i \in 1..SeedLen |-> d] : d \in {0, 15} }

\* randomValue arguments: below, at and above both ends of (0, 1)
RandomInputs == { -5000, 0, 1, 5000, RScale - 1, RScale, 15000 }

\* rtpFactor arguments (percent): below, at and above both ends of (0, 1]
RtpFactorInputs == { -50, 0, 1, DefaultRtp, 100, 101 }

RandomFrame ==
  UNCHANGED << engineVars, configVars, now, calls, betVars, phaseVars,
               formulaVars >>

\* seedToRandom(seed), then calculateCrashPoint on its value with the
\* configured RTP factor, as generateNewRound does
SeedToRandom ==
  /\ evaluations < MaxEvaluations
  /\ evaluations' = evaluations + 1
  /\ \E seed \in SeedInputs :
       LET random == seedToRandom(seed)
       IN  /\ lastEval' = [seed |-> seed, random |-> random,
                            settings |-> << rtpFactor, debugState,
                                            currentRound.roundId >>]
           /\ prevEval' = lastEval
           /\ crashIn' = [randomValue |-> random, rtpFactor |-> rtpFactor]
           /\ crashOut' = calculateCrashPoint(random, rtpFactor)
  /\ RandomFrame

\* calculateCrashPoint(randomValue, rtpFactor) on any pair of numbers
CalculateCrashPoint ==
  /\ \E r \in RandomInputs, f \in RtpFactorInputs :
       /\ crashIn' = [randomValue |-> r, rtpFactor |-> f]
       /\ crashOut' = calculateCrashPoint(r, f)
  /\ UNCHANGED << evaluations, lastEval, prevEval >>
  /\ RandomFrame

\* seedToRandom is called between changes of the settings and of the engine
NextRandom ==
  \/ SeedToRandom
  \/ SetRTPPercentage
  \/ SetDebugCrashPoint
  \/ ClearDebugCrashPoint
  \/ HashResolved

SpecRandom == Init /\ [][NextRandom]_vars

NextCrashPoint == CalculateCrashPoint

SpecCrashPoint == Init /\ [][NextCrashPoint]_vars

TypeOK ==
  /\ currentRound.state \in {"BETTING", "RUNNING", "CRASHED"}
  /\ countdown \in -10..DefaultCountdown
  /\ rafCallbacks \subseteq Ids
  /\ now \in 0..MaxNow

(***************************************************************************)
(* Properties                                                              *)
(***************************************************************************)
Installed == currentRound.seed # NoSeed

\* the same round object before and after a step
SameRound == /\ currentRound'.roundId = currentRound.roundId
             /\ currentRound'.seed = currentRound.seed

TickSources == rafCallbacks \cup tickIntervals

\* what useGameEngine() returns as gameState (lines 1588-1590)
Exported ==
  [ currentRound |-> currentRound, isRunning |-> isRunning,
    countdown |-> countdown ]

\* C1: within one round (same roundId) the state never goes CRASHED ->
\* RUNNING or RUNNING -> BETTING, and BETTING is only entered by installing
\* a round with a new roundId.
C1_ForwardOnly ==
  [][ SameRound =>
        /\ ~(currentRound.state = "CRASHED" /\ currentRound'.state = "RUNNING")
        /\ ~(currentRound.state = "RUNNING" /\ currentRound'.state = "BETTING")
        /\ (currentRound'.state = "BETTING" => currentRound.state = "BETTING")
    ]_vars

\* C2: at every moment at most one tick source (one pending animation-frame
\* callback or one discretized-mode interval) is active.
C2_OneTickSource == Cardinality(TickSources) <= 1

\* C3: no timer, tick source, crash delay or pending round initialisation
\* created before a forceRestartRound call runs after that call.
C3_NoStaleCallback == ~staleFired

\* C4: after cleanup(), until init, forceRestartRound or resetGame is called,
\* the round, the countdown and the emitted events do not change.
C4_StoppedAfterCleanup ==
  [][ (stopped /\ stopped') =>
        /\ currentRound' = currentRound
        /\ countdown' = countdown
        /\ events' = << >>
    ]_vars

\* C5: for every installed round currentMultiplier is within
\* [1.00, crashPoint], and equals crashPoint once the round is CRASHED.
C5_MultiplierBounds ==
  Installed =>
    /\ currentRound.currentMultiplier >= MScale
    /\ currentRound.currentMultiplier <= currentRound.crashPoint
    /\ (currentRound.state = "CRASHED" =>
          currentRound.currentMultiplier = currentRound.crashPoint)

\* C6: a running round keeps exactly the tick source startRound gave it,
\* whatever the simulation mode is switched to meanwhile.
C6_TickSourceKept ==
  (currentRound.state = "RUNNING" /\ isRunning) =>
    /\ (tickSourceAtStart = "interval" =>
          tickIntervals = {simulationIntervalId} /\ rafCallbacks = {})
    /\ (tickSourceAtStart = "frame" =>
          tickIntervals = {} /\ Cardinality(rafCallbacks) = 1)

\* C7: the installed round's crashPoint is the override value when the
\* override was active at round initialisation, and otherwise
\* calculateCrashPoint(seedToRandom(seed), rtpFactor).
C7_CrashPointSource ==
  Installed =>
    IF committed.active
    THEN currentRound.crashPoint = committed.override
    ELSE currentRound.crashPoint =
           calculateCrashPoint(seedToRandom(currentRound.seed), committed.rtp)

\* a round installed under the override, with a crash point other than the
\* one its seed gives
C7_Witness ==
  /\ Installed
  /\ committed.active
  /\ currentRound.crashPoint = committed.override
  /\ currentRound.crashPoint #
       calculateCrashPoint(seedToRandom(currentRound.seed), committed.rtp)

\* C8: at roundCrash of a round not initialised under the override, the
\* revealed seed hashes to the seedHash of the round's roundStart and gives
\* the crashPoint of the event; a round initialised under the override is
\* flagged debugMode.
C8_FairnessAtReveal ==
  \A i \in DOMAIN events :
    events[i].type = "roundCrash" =>
      /\ (committed.active <=> currentRound.debugMode)
      /\ (~currentRound.debugMode =>
            /\ (roundStartEvt # None =>
                  hashSeed(events[i].seed) = roundStartEvt.seedHash)
            /\ calculateCrashPoint(seedToRandom(events[i].seed), committed.rtp)
                 = events[i].crashPoint)

\* roundCrash of a started round that was drawn from its seed
C8_Witness ==
  /\ \E i \in DOMAIN events : events[i].type = "roundCrash"
  /\ ~currentRound.debugMode
  /\ roundStartEvt # None
  /\ currentRound.state = "CRASHED"

\* C9: while the round is BETTING or RUNNING neither the emitted events nor
\* the exported gameState.currentRound carry the seed.
C9_SeedHiddenUntilCrash ==
  (Installed /\ currentRound.state \in {"BETTING", "RUNNING"}) =>
    /\ "seed" \notin DOMAIN Exported.currentRound
    /\ \A i \in DOMAIN events : "seed" \notin DOMAIN events[i]

StrictlyIncreasing(seq) == \A i, j \in DOMAIN seq : i < j => seq[i] < seq[j]

\* C10: between resetGame calls every installed roundId is greater than the
\* ones installed before (overlapping initialisations and reloads included),
\* and the persisted lastRoundId equals the installed round's roundId.
C10_RoundIdMonotone ==
  /\ StrictlyIncreasing(installedIds)
  /\ (Installed => storedEngine = currentRound.roundId)

\* C10 as amended: the same between resets, a reset being a resetGame call
\* or App.handleReset (which removes the persisted lastRoundId and reloads).
C10_RoundIdMonotoneBetweenResets ==
  /\ StrictlyIncreasing(installedIdsAnyReset)
  /\ (Installed => storedEngine = currentRound.roundId)

\* a second round installed while another initialisation is still pending
C10_Witness ==
  /\ Len(installedIdsAnyReset) = 2
  /\ Installed
  /\ storedEngine = currentRound.roundId
  /\ currentRound.roundId >= 2


(***************************************************************************)
(* Properties of the bets                                                  *)
(***************************************************************************)
\* this step is a cashOut that was accepted
CashOutAccepted ==
  /\ lastBetCall'.op = "cashOut" /\ betCalls' = betCalls + 1
  /\ betResult'

\* roundCrash is among the events of the state
RoundCrashEmitted == \E i \in DOMAIN events : events[i].type = "roundCrash"

\* C11: roundCrash is the ordering boundary of cash-out: a bet cashed out
\* before roundCrash stays CASHED_OUT with its winnings when the round
\* crashes, and no cashOut is accepted on an installed round once its
\* roundCrash has been emitted.
C11_CrashIsCashOutBoundary ==
  [][ /\ (currentBet.status = "CASHED_OUT" /\ RoundCrashEmitted') =>
           (currentBet' = currentBet /\ balanceCents' = balanceCents)
      /\ (Installed /\ CashOutAccepted) => currentRound.crashTime = Null
    ]_vars

\* C12: on an installed round a cash-out request succeeds only while the
\* round is RUNNING; in BETTING and CRASHED it is rejected and balance and
\* bet stay as they are.
C12_CashOutOnlyWhileRunning ==
  [][ (Installed /\ lastBetCall'.op = "cashOut" /\ betCalls' = betCalls + 1
         /\ currentRound.state # "RUNNING") =>
        (~betResult' /\ balanceCents' = balanceCents
           /\ currentBet' = currentBet)
    ]_vars

\* C16: balanceCents is never negative, and placeBet is rejected whenever
\* the balance is smaller than the requested amount.
C16_BalanceNeverNegative ==
  [][ /\ balanceCents' >= 0
      /\ (lastBetCall'.op = "placeBet" /\ betCalls' = betCalls + 1
            /\ balanceCents < lastBetCall'.amountCents) => ~betResult'
    ]_vars


\* nothing is scheduled: no timer, no frame, no delay, no pending promise
Idle == LiveIds(Eng) = {}

\* C17: when seed generation or crash-point derivation throws in a round
\* initialisation, the engine is not left waiting in BETTING with nothing
\* scheduled and nothing reported, nor RUNNING on an invalid crash point.
C17_InitErrorNotSilent ==
  initFailed =>
    /\ ~(currentRound.state = "BETTING" /\ Idle)
    /\ ~(currentRound.state = "RUNNING" /\ currentRound.crashPoint < MinCrashPoint)


(***************************************************************************)
(* Properties of the phase store                                           *)
(***************************************************************************)
\* exactly the last phase is open, the others end at increasing times
ValidEndTimes(ps) ==
  /\ Len(ps) >= 1
  /\ ps[Len(ps)].endTime = Null
  /\ \A i \in 1..(Len(ps) - 1) : ps[i].endTime # Null
  /\ \A i, j \in 1..(Len(ps) - 1) : i < j => ps[i].endTime < ps[j].endTime

\* this step is a call of op
PhaseCalled(op) == phaseCalls' = phaseCalls + 1 /\ lastPhaseCall'.op = op

\* C13: after any sequence of setGrowthRate, setPhaseEndTime, addPhase,
\* removePhase and resetToDefaults from the default configuration, exactly
\* the last phase has endTime = null and the other end times are strictly
\* increasing.
C13_EndTimesOrdered == ValidEndTimes(configPhases)

\* C14: the number of phases stays within 2..10; addPhase at 10 phases and
\* removePhase at 2 phases return false and leave the sequence unchanged.
C14_PhaseCountBounded ==
  [][ /\ Len(configPhases') >= 2 /\ Len(configPhases') <= MAX_PHASES
      /\ (PhaseCalled("addPhase") /\ Len(configPhases) = MAX_PHASES) =>
           (~phaseResult' /\ configPhases' = configPhases)
      /\ (PhaseCalled("removePhase") /\ Len(configPhases) = 2) =>
           (~phaseResult' /\ configPhases' = configPhases)
    ]_vars

\* addPhase was refused at the maximum
C14_Witness ==
  /\ lastPhaseCall.op = "addPhase"
  /\ Len(configPhases) = MAX_PHASES
  /\ ~phaseResult

\* timeMs lies strictly between the end times of the neighbours of the
\* phase at index (0 below the first phase, no limit above the last finite
\* one)
StrictlyBetweenNeighbours(ps, index, timeMs) ==
  /\ timeMs > (IF index = 0 THEN 0 ELSE ps[index].endTime)
  /\ (index < Len(ps) - 2 => timeMs < ps[index + 2].endTime)

\* the mutation requested by call on ps is one the claim says is refused
MustReject(ps, call) ==
  \/ /\ call.op = "removePhase"
     /\ call.index \in 0..(Len(ps) - 1)
     /\ (call.index = Len(ps) - 1 \/ Len(ps) = 2)
  \/ /\ call.op = "setPhaseEndTime"
     /\ call.index \in 0..(Len(ps) - 1)
     /\ \/ call.index = Len(ps) - 1
        \/ ~StrictlyBetweenNeighbours(ps, call.index, call.value)

\* C15: removePhase on the last phase or at 2 phases, setPhaseEndTime on
\* the last phase or with a value not strictly between its neighbours' end
\* times: each returns false and leaves every phase unchanged.
C15_RejectedAtomically ==
  [][ (phaseCalls' = phaseCalls + 1 /\ MustReject(configPhases, lastPhaseCall'))
        => (~phaseResult' /\ configPhases' = configPhases)
    ]_vars

\* setPhaseEndTime refused a value at or beyond the next phase's end time
C15_Witness ==
  /\ lastPhaseCall.op = "setPhaseEndTime"
  /\ lastPhaseCall.index = 0
  /\ Len(configPhases) >= 3
  /\ lastPhaseCall.value >= configPhases[2].endTime
  /\ ~phaseResult


(***************************************************************************)
(* crashFormula: the inverse, continuity and monotonicity                  *)
(***************************************************************************)
Abs(x) == IF x < 0 THEN -x ELSE x

\* the resolution of the fixed-point arithmetic around m: times are whole
\* milliseconds and multipliers whole thousandths
ToleranceDivisor == 200
Tolerance(m) == m \div ToleranceDivisor + 2

PhaseFormula(phases, i, elapsedMs) ==
  LET previousEndTime == IF i = 1 THEN 0 ELSE phases[i - 1].endTime
  IN  Times(Cumulative(phases, i - 1),
            PowE(phases[i].rate, elapsedMs - previousEndTime))

\* C19: the curve is continuous at every interior boundary: at
\* tb = phases[i].endTime, calculateCurrentMultiplier(tb), which enters the
\* next phase with zero time in it, equals phase i's formula over the full
\* duration of phase i
C19_ContinuousAtBoundaries ==
  \A i \in Boundaries(configPhases) :
    elapsed2 = configPhases[i].endTime
      => multiplier2 = PhaseFormula(configPhases, i, elapsed2)

\* the multiplier has been computed at a boundary after the first
C19_Witness ==
  \E i \in Boundaries(configPhases) :
    /\ i >= 2
    /\ elapsed2 = configPhases[i].endTime
    /\ multiplier2 > MScale

\* C20: on a fixed valid configuration calculateCurrentMultiplier is
\* non-decreasing in elapsedMs, and exactly 1.00 for elapsedMs <= 0
C20_NonDecreasing ==
  /\ elapsed1 <= elapsed2 => multiplier1 <= multiplier2
  /\ elapsed1 <= 0 => multiplier1 = MScale

\* two times on either side of the first boundary, with a strict increase
C20_Witness ==
  /\ 0 < elapsed1
  /\ elapsed1 < configPhases[1].endTime
  /\ configPhases[1].endTime <= elapsed2
  /\ multiplier1 < multiplier2


InCrashPointRange(x) == x >= MinCrashPoint /\ x <= MaxCrashPoint

\* C22: every installed round's crashPoint is within [1.00, 10000], drawn
\* from the seed or taken from the override, and a step changes the override
\* only to a value within that range or clears it (setDebugCrashPoint leaves
\* it alone when it rejects)
C22_CrashPointInRange ==
  [][ /\ Installed' => InCrashPointRange(currentRound'.crashPoint)
      /\ debugState' # debugState =>
           \/ debugState'.crashPointOverride = Null
           \/ InCrashPointRange(debugState'.crashPointOverride)
    ]_vars

\* a round installed with an override that setDebugCrashPoint accepted, after
\* the default override
C22_Witness ==
  /\ Installed
  /\ currentRound.debugMode
  /\ currentRound.crashPoint # DefaultDebugOverride
  /\ currentRound.crashPoint = debugState.crashPointOverride


\* C24: the countdown timer and the tick loop are tied to the state: a live
\* countdown interval implies the round is BETTING, and a live tick source
\* (animation-frame chain or simulation interval) implies it is RUNNING
C24_TimersMatchState ==
  /\ countdownTimers # {} => currentRound.state = "BETTING"
  /\ TickSources # {} => currentRound.state = "RUNNING"


\* the events of type t emitted by the step into the state
Emitted(evts, t) == { i \in DOMAIN evts : evts[i].type = t }

\* the current round has had its roundStart
Started == roundStartEvt # None

\* the current round has crashed
Crashed == currentRound.state = "CRASHED"

\* C25: per round, roundStart is emitted at most once, roundCrash at most
\* once and only after the round's roundStart, and multiplierUpdate only
\* between the two: a step emits roundStart only for a round not started
\* yet, roundCrash only for a started round that has not crashed, and
\* multiplierUpdate only for a started round that had not crashed before
C25_EventOrder ==
  [][ /\ Emitted(events', "roundStart") # {} => ~(SameRound /\ Started)
      /\ Cardinality(Emitted(events', "roundStart")) <= 1
      /\ Emitted(events', "roundCrash") # {} =>
           /\ Started'
           /\ ~(SameRound /\ Crashed)
      /\ Cardinality(Emitted(events', "roundCrash")) <= 1
      /\ Emitted(events', "multiplierUpdate") # {} =>
           /\ Started'
           /\ ~(SameRound /\ Crashed)
    ]_vars


\* a call of the debug or RTP settings
SettingsCall ==
  \/ SetDebugCrashPoint
  \/ ClearDebugCrashPoint
  \/ SetRTPPercentage
  \/ SetRTPFactor

\* a countdown or game-loop tick
Tick == CountdownTick \/ AnimationFrame \/ SimulationTick

\* C28: a round's committed values are fixed at its initialisation: a settings
\* call or a tick made while the round is BETTING or RUNNING leaves its
\* crashPoint, seed, seedHash and debugMode as they were
C28_CommittedValuesFixed ==
  [][ ( /\ Installed
        /\ currentRound.state \in {"BETTING", "RUNNING"}
        /\ (SettingsCall \/ Tick) )
      => /\ currentRound'.crashPoint = currentRound.crashPoint
         /\ currentRound'.seed = currentRound.seed
         /\ currentRound'.seedHash = currentRound.seedHash
         /\ currentRound'.debugMode = currentRound.debugMode
    ]_vars

\* a round in play whose crash point is the one drawn under settings that
\* have been changed since
C28_Witness ==
  /\ Installed
  /\ currentRound.state \in {"BETTING", "RUNNING"}
  /\ \/ debugState.crashPointOverride # committed.override
     \/ rtpFactor # committed.rtp
  /\ currentRound.crashPoint = ChooseCrashPoint(
       [crashPointOverride |-> committed.override,
        isActive |-> committed.active],
       seedToRandom(currentRound.seed), committed.rtp)


\* C29: at most one countdown interval exists at any time, and it is the one
\* the engine holds the handle of: starting a countdown cancels the one
\* running before, also when round initialisations overlap
C29_OneCountdown ==
  /\ Cardinality(countdownTimers) <= 1
  /\ countdownTimers \subseteq {countdownInterval}

\* a second round has been installed, and its countdown started, before the
\* countdown of the first had ended
C29_Witness ==
  /\ Len(installedIds) = 2
  /\ now = 0
  /\ TickSources = {}
  /\ currentRound.state = "BETTING"
  /\ Cardinality(countdownTimers) = 1


(***************************************************************************)
(* Liveness of the round cycle                                             *)
(***************************************************************************)
\* the bounds of the model leave room for the next step
InBounds == Room(Eng, 2) /\ currentRound.roundId < MaxRoundId

\* the clock of the model runs long enough for the round to reach its
\* crash point
CrashTimeInClock ==
  MultiplierAt(configPhases,
               (Epoch + MaxNow * StepMs) - currentRound.startTime)
    >= currentRound.crashPoint

\* C26: with fair timers and no cleanup, forceRestartRound or resetGame,
\* every round that enters RUNNING eventually reaches CRASHED, also when
\* the simulation mode is switched while it runs
C26_RunningCrashes ==
  (Installed /\ currentRound.state = "RUNNING" /\ CrashTimeInClock)
    ~> \/ currentRound.state = "CRASHED"
       \/ currentRound.state = "RUNNING" /\ ~CrashTimeInClock
       \/ ~InBounds


C31_AddAtEnd ==
  [][ LET ps == configPhases
          qs == configPhases'
          n == Len(ps)
          afterIndex == lastPhaseCall'.index
      IN  ( /\ phaseCalls' = phaseCalls + 1
            /\ lastPhaseCall'.op = "addPhase"
            /\ afterIndex = -1 \/ afterIndex >= n - 1
            /\ n < MAX_PHASES )
          => /\ phaseResult'
             /\ Len(qs) = n + 1
             /\ \A i \in 1..(n - 1) : qs[i] = ps[i]
             /\ qs[n + 1] = ps[n]
             /\ qs[n].endTime = ps[n - 1].endTime + 10000
             /\ \A i \in 1..n : qs[n].id # ps[i].id
             /\ \A i \in 1..(n + 1) : (qs[i].endTime = Null) <=> (i = n + 1)
    ]_vars

\* a phase was added with afterIndex = index of the last phase
C31_Witness ==
  /\ lastPhaseCall.op = "addPhase"
  /\ lastPhaseCall.index = Len(configPhases) - 2
  /\ phaseResult
  /\ configPhases[Len(configPhases) - 1].rate = DefaultNewRate
  /\ configPhases[Len(configPhases) - 1].endTime
       = configPhases[Len(configPhases) - 2].endTime + 10000

\* the crash point of every round the page load has started is derived
\* from its seed
DerivedFromSeed(rounds) ==
  \A p \in rounds :
    /\ ~p.debugMode
    /\ p.crashPoint = calculateCrashPoint(seedToRandom(p.seed), rtpFactor)

\* C32: an override set with setDebugCrashPoint survives a page reload: after
\* the reload it is active with the same value as before
C32_OverrideSurvivesReload ==
  [][ (ReloadPage /\ isDebugActive(debugState))
        => /\ isDebugActive(debugState')
           /\ getDebugCrashPoint(debugState') = getDebugCrashPoint(debugState)
    ]_vars

\* the page was reloaded after 1.5 was submitted: the round being prepared
\* has read the override
C32_Witness ==
  /\ debugState = [crashPointOverride |-> 1500, isActive |-> TRUE]
  /\ ~Installed
  /\ \E p \in pendingRounds : p.crashPoint = 1500 /\ p.debugMode

\* C38: clearing the override is durable: after clearDebugCrashPoint and a
\* page reload isDebugActive() is false and the next round's crash point is
\* derived from its seed
C38_ClearIsDurable ==
  [][ (ReloadPage /\ ~isDebugActive(debugState)
         /\ storedDebug = saveToStorage(debugState))
        => /\ ~isDebugActive(debugState')
           /\ DerivedFromSeed(pendingRounds')
    ]_vars

\* C39: with nothing persisted the override is absent and inactive, so the
\* first round and every later round until setDebugCrashPoint is called have
\* a crash point derived from their seed and debugMode = false
C39_FirstStartWithoutOverride ==
  /\ ~isDebugActive(debugState)
  /\ DerivedFromSeed(pendingRounds)
  /\ Installed => DerivedFromSeed({currentRound})


(***************************************************************************)
(* The growth-rate configuration read from localStorage                    *)
(***************************************************************************)
\* the longest phases array among the persisted blobs
MaxStoredPhases == 3

\* one entry of a persisted phases array; typed is false for an entry whose
\* id or rate is not a number, or whose endTime is neither null nor a number
StoredPhaseEntries ==
  { [id |-> 1, rate |-> r, endTime |-> t, typed |-> TRUE] :
      r \in { -5, 693 }, t \in { Null, 10000, 25000 } }
    \cup { [id |-> 1, rate |-> 693, endTime |-> Null, typed |-> FALSE] }

\* the persisted objects with a phases array of n entries, ids 1..n
StoredPhaseArrays(n) ==
  { [kind |-> "phases", phases |-> [i \in 1..n |-> [s[i] EXCEPT !.id = i]]] :
      s \in [1..n -> StoredPhaseEntries] }

\* the values of localStorage['crashgame_growth_config']: nothing, text that
\* is not JSON, an object of neither format, an object with a phases array,
\* an object of the legacy format
StoredGrowthBlobs ==
  { [kind |-> "absent"], [kind |-> "unparsable"], [kind |-> "other"] }
    \cup UNION { StoredPhaseArrays(n) : n \in 0..MaxStoredPhases }
    \cup { [kind |-> "legacy", rates |-> << 693, 921, r3 >>,
            timeEndPoints |-> << t1, t2 >>] :
             r3 \in { -5, 1842 }, t1 \in { 10000, 30000 },
             t2 \in { 10000, 25000 } }

\* migrateLegacyFormat(legacy)
migrateLegacyFormat(legacy) ==
  << [id |-> 1, rate |-> legacy.rates[1],
      endTime |-> legacy.timeEndPoints[1]],
     [id |-> 2, rate |-> legacy.rates[2],
      endTime |-> legacy.timeEndPoints[2]],
     [id |-> 3, rate |-> legacy.rates[3], endTime |-> Null] >>

\* the phases of a persisted array as the store holds them
ParsedPhases(stored) ==
  [i \in 1..Len(stored.phases) |->
     [id |-> stored.phases[i].id, rate |-> stored.phases[i].rate,
      endTime |-> stored.phases[i].endTime]]

\* loadFromStorage(): a phases array is taken as it is when every entry has
\* the three types and the array is not empty; a legacy object is migrated;
\* anything else gives the default configuration
loadFromStorage(stored) ==
  IF /\ stored.kind = "phases"
     /\ \A i \in 1..Len(stored.phases) : stored.phases[i].typed
     /\ Len(stored.phases) > 0
    THEN ParsedPhases(stored)
    ELSE IF stored.kind = "legacy" THEN migrateLegacyFormat(stored)
    ELSE DefaultPhases

\* the module is initialised with the stored blob
LoadGrowthConfig ==
  /\ \E stored \in StoredGrowthBlobs :
       configPhases' = loadFromStorage(stored)
  /\ phaseResult' = TRUE
  /\ phaseCalls' = 0
  /\ lastPhaseCall' = NoPhaseCall
  /\ PhaseFrame

NextGrowthLoad == LoadGrowthConfig

SpecGrowthLoad == Init /\ [][NextGrowthLoad]_vars

\* the phase invariants of the data model
PhaseInvariants(ps) ==
  /\ Len(ps) >= 2
  /\ Len(ps) <= MAX_PHASES
  /\ \A i \in 1..Len(ps) : ps[i].rate > 0
  /\ ValidEndTimes(ps)

\* C40: after loading, the configuration in memory has 2 to 10 phases with
\* positive rates, strictly increasing end times and exactly the last phase
\* open, whatever blob was persisted.
C40_LoadedConfigValid == PhaseInvariants(configPhases)


\* this step is a call of the bet request op
BetCalled(op) == betCalls' = betCalls + 1 /\ lastBetCall'.op = op

\* this step puts a new bet in place of the current one
NewBetPlaced == BetCalled("placeBet") /\ betResult'

\* the bet is settled
Settled(bet) == bet.status \in { "CASHED_OUT", "LOST" }

\* C33: a bet is settled at most once: its status changes only from ACTIVE
\* to CASHED_OUT or from ACTIVE to LOST; cashOut on a CASHED_OUT or LOST
\* bet fails and pays nothing, and a crash does not change a CASHED_OUT
\* bet.
C33_SettledAtMostOnce ==
  [][ /\ (~NewBetPlaced /\ currentBet' # NoBet
            /\ currentBet'.status # currentBet.status) =>
           (currentBet.status = "ACTIVE" /\ Settled(currentBet'))
      /\ (~NewBetPlaced /\ Settled(currentBet) /\ currentBet' # NoBet) =>
           currentBet' = currentBet
      /\ (BetCalled("cashOut") /\ Settled(currentBet)) =>
           (~betResult' /\ balanceCents' = balanceCents
              /\ currentBet' = currentBet /\ transactions' = transactions)
      /\ (RoundCrashEmitted' /\ ~RoundCrashEmitted
            /\ currentBet.status = "CASHED_OUT") =>
           (currentBet' = currentBet /\ balanceCents' = balanceCents)
    ]_vars

\* a second cashOut on the bet that was cashed out has been refused
C33_Witness ==
  /\ lastBetCall.op = "cashOut"
  /\ ~betResult
  /\ currentBet.status = "CASHED_OUT"
  /\ Len(transactions) = 2
  /\ transactions[2].type = "WIN"


\* C34: an accepted cash-out of a bet placed on an installed round records
\* a multiplier m with 1.00 <= m <= crashPoint of the round the bet was
\* placed in, which is the round on display, and adds
\* floor(amountCents * m) to the balance.
C34_CashOutWithinRound ==
  [][ ( /\ Installed /\ BetCalled("cashOut") /\ betResult'
        /\ currentBet.roundId >= 1 ) =>
        /\ currentBet.roundId = currentRound.roundId
        /\ currentBet'.cashOutMultiplier >= MScale
        /\ currentBet'.cashOutMultiplier <= currentRound.crashPoint
        /\ currentBet'.winningsCents =
             calculateWinnings(currentBet.amountCents,
                               currentBet'.cashOutMultiplier)
        /\ balanceCents' = Plus(balanceCents, currentBet'.winningsCents)
    ]_vars


(***************************************************************************)
(* The bets with the debug panel's restarts                                *)
(***************************************************************************)
\* number of bet requests made around a restart
MaxRestartBetCalls == 1

\* the engine left to its timers, the player, and the debug panel's
\* forceRestartRound and resetGame
NextBetRestart ==
  \/ CountdownTick
  \/ SimulationTick
  \/ CrashDelayFires
  \/ HashResolved
  \/ AdvanceClock
  \/ HandlePlaceBet /\ betCalls < MaxRestartBetCalls
  \/ HandleCashOut /\ betCalls < MaxRestartBetCalls
  \/ HandleCancelBet /\ betCalls < MaxRestartBetCalls
  \/ ForceRestartRound
  \/ ResetGame

SpecBetRestart == Init /\ [][NextBetRestart]_vars

\* C37: an ACTIVE bet always belongs to the round on display: whenever
\* currentBet.status = ACTIVE, currentBet.roundId = currentRound.roundId,
\* so no bet of an earlier round is ACTIVE once a new round is installed.
\* Stated for the bets placed on an installed round, with an installed
\* round on display.
C37_ActiveBetOfCurrentRound ==
  ( /\ Installed /\ currentRound.roundId >= 1
    /\ currentBet.status = "ACTIVE" /\ currentBet.roundId >= 1 ) =>
    currentBet.roundId = currentRound.roundId


\* C35: a rejected placeBet changes nothing: balanceCents, currentBet and
\* transactions are as before the call, also when an ACTIVE bet for the
\* same round exists.
C35_RejectedPlaceBetChangesNothing ==
  [][ (BetCalled("placeBet") /\ ~betResult') =>
        /\ balanceCents' = balanceCents
        /\ currentBet' = currentBet
        /\ transactions' = transactions
    ]_vars


\* C36: cancelBet refunds only an ACTIVE bet: on a CASHED_OUT or LOST bet
\* it fails and the balance stays as it is, so a stake is never returned in
\* addition to a payout.
C36_CancelOnlyActive ==
  [][ (BetCalled("cancelBet") /\ currentBet.status # "ACTIVE") =>
        (~betResult' /\ balanceCents' = balanceCents
           /\ currentBet' = currentBet)
    ]_vars

====
